---- MODULE Spec2Model ----
(***************************************************************************)
(* Identity-verification contracts (ECDSA scheme and OIDC scheme): the     *)
(* account store, register_identity / verify_identity / get_identity_info  *)
(* and the execute_action dispatchers; the key custody of the ECDSA host   *)
(* (CustodySpec) and the submission steps of the WebAuthn host             *)
(* (SubmissionSpec).                                                       *)
(*                                                                         *)
(* Strings are sequences of one-character strings, so that ends_with and   *)
(* trim_end_matches are computed as the code computes them.  SHA-256 and   *)
(* the signature schemes are modelled symbolically (injective hash,        *)
(* unforgeable signatures).                                                *)
(***************************************************************************)
EXTENDS Integers, Sequences, FiniteSets, TLC

\* the contract: the scheme under study, its account store, the last call
\* and the history of the watched verification
VARIABLES scheme, identities, call, remembered

\* the host of the ECDSA scheme: the key directory, the last call of
\* handle_secp384r1_identity, the public keys returned for each label
VARIABLES key_files, custody, returned

\* the host of the WebAuthn scheme: the running command, and the node it
\* talks to
VARIABLES cli, node

contractVars == <<scheme, identities, call, remembered>>

custodyVars == <<key_files, custody, returned>>

submissionVars == <<cli, node>>

vars == <<contractVars, custodyVars, submissionVars>>

----------------------------------------------------------------------------
(* Bounds of the model *)

\* successful verifications are explored while the stored nonce is at most
\* this value (and again at the top of the u32 range)
MaxNonce == 1

\* the number of commands the WebAuthn host is run for
MaxRuns == 2

----------------------------------------------------------------------------
(* Program constants *)

\* AccountInfo.nonce is a u32, held as two 16-bit limbs [hi, lo] whose value
\* is hi * 65536 + lo
LimbModulus == 65536

U32(n) == [hi |-> n \div LimbModulus, lo |-> n % LimbModulus]

U32Max == [hi |-> LimbModulus - 1, lo |-> LimbModulus - 1]

\* u32::wrapping_add(n, 1)
WrappingAdd1(n) ==
    IF n.lo + 1 < LimbModulus THEN [hi |-> n.hi, lo |-> n.lo + 1]
    ELSE [hi |-> (n.hi + 1) % LimbModulus, lo |-> 0]

\* m = n + 1 as numbers
IsSuccessor(n, m) == n # U32Max /\ m = WrappingAdd1(n)

\* n < m as numbers
U32Less(n, m) == n.hi < m.hi \/ (n.hi = m.hi /\ n.lo < m.lo)

\* Display of a u32, rendered limb by limb (injective, as decimal is)
FormatU32(n) == <<ToString(n.hi), "'", ToString(n.lo)>>

----------------------------------------------------------------------------
(* Strings *)

HexDigits == {"a", "c"}

\* str::ends_with
EndsWith(s, p) ==
    /\ Len(s) >= Len(p)
    /\ SubSeq(s, Len(s) - Len(p) + 1, Len(s)) = p

\* str::trim_end_matches: removes the pattern from the end repeatedly
RECURSIVE TrimEndMatches(_, _)
TrimEndMatches(s, p) ==
    IF p # <<>> /\ EndsWith(s, p)
    THEN TrimEndMatches(SubSeq(s, 1, Len(s) - Len(p)), p)
    ELSE s

\* Sha256 followed by hex::encode; injective
HexSha256(s) == <<"sha256:">> \o s

----------------------------------------------------------------------------
(* Results of the methods: Ok(value), Err(message) or a panic *)

Ok(v) == [kind |-> "ok", value |-> v, msg |-> ""]

Err(m) == [kind |-> "err", value |-> FALSE, msg |-> m]

Panic == [kind |-> "panic", value |-> FALSE, msg |-> ""]

\* a map that holds the last inserted entry only
InsertAlone(ids, k, info) == [x \in {k} |-> info]

\* BTreeMap::insert: adds the entry or replaces the one present
Insert(ids, k, info) ==
    [x \in (DOMAIN ids) \cup {k} |-> IF x = k THEN info ELSE ids[x]]

EmptyStore == [x \in {} |-> [hash |-> <<>>, nonce |-> U32(0)]]

----------------------------------------------------------------------------
(* ECDSA scheme *)

\* the name of the deployed contract
ContractName == <<"c">>

\* hex strings that decode to a valid SEC1 P-384 point
Sec1Keys == {<<"a", "a">>, <<"a", "c">>}

\* hex::decode
HexDecodeOk(s) ==
    /\ Len(s) % 2 = 0
    /\ \A i \in 1..Len(s) : s[i] \in HexDigits

\* the other blobs of the transaction
Blob(cn, data) == [contract_name |-> cn, data |-> data]

BlobBatches == {<<>>, <<Blob(<<"c">>, <<1>>)>>}

RECURSIVE JoinStr(_, _)
JoinStr(parts, sep) ==
    IF parts = <<>> THEN <<>>
    ELSE IF Len(parts) = 1 THEN parts[1]
    ELSE parts[1] \o sep \o JoinStr(Tail(parts), sep)

\* {:?} of a Vec<u8>
DebugBytes(data) ==
    <<"[">> \o JoinStr([i \in 1..Len(data) |-> <<ToString(data[i])>>], <<",", " ">>)
            \o <<"]">>

BlobString(blob) == blob.contract_name \o <<" ">> \o DebugBytes(blob.data)

RegistrationMessage == <<"Hyle Registration">>

VerifyMessage(nonce, blobs) ==
    <<"verify", " ">> \o FormatU32(nonce) \o <<" ">>
        \o JoinStr([i \in 1..Len(blobs) |-> BlobString(blobs[i])], <<" ">>)

\* a hex signature string: whether it is hex, whether the bytes are DER, and
\* the key and message it was made with
Sign(k, m) == [hex |-> TRUE, der |-> TRUE, signer |-> k, msg |-> m]

NotHexSignature == [hex |-> FALSE, der |-> FALSE, signer |-> <<>>, msg |-> <<>>]

NotDerSignature == [hex |-> TRUE, der |-> FALSE, signer |-> <<>>, msg |-> <<>>]

NonceInputs == {U32(n) : n \in 0..MaxNonce} \cup {U32Max}

\* the batches of other blobs a call is submitted with
OtherBatch(b) == CHOOSE b2 \in BlobBatches : b2 # b

\* proof material offered with a registration: malformed, or a signature
\* over the registration message by either key
RegisterSignatures ==
    {NotHexSignature, NotDerSignature}
        \cup {Sign(k, RegistrationMessage) : k \in Sec1Keys}

\* proof material offered with a verification of nonce n in the batch b:
\* a signature over the message of this call by either key, a signature
\* over the message of the same nonce in the other batch, or a malformed one
VerifySignatures(n, b) ==
    {Sign(<<"a", "a">>, VerifyMessage(n, b)),
     Sign(<<"a", "a">>, VerifyMessage(n, OtherBatch(b)))}
        \cup IF b = <<>>
             THEN {Sign(<<"a", "c">>, VerifyMessage(n, b)),
                   NotHexSignature, NotDerSignature}
             ELSE {}

\* a verifier that accepts every DER signature
AnyDerSignatureVerifies(pub_key, signature, message) ==
    IF ~HexDecodeOk(pub_key) THEN Err("Failed to decode Pub key")
    ELSE IF pub_key \notin Sec1Keys THEN Panic
    ELSE IF ~signature.hex THEN Err("Failed to decode Signature")
    ELSE IF ~signature.der THEN Panic
    ELSE Ok(TRUE)

verify_signature(pub_key, signature, message) ==
    IF ~HexDecodeOk(pub_key) THEN Err("Failed to decode Pub key")
    ELSE IF pub_key \notin Sec1Keys THEN Panic
    ELSE IF ~signature.hex THEN Err("Failed to decode Signature")
    ELSE IF ~signature.der THEN Panic
    ELSE Ok(signature.signer = pub_key /\ signature.msg = message)

\* a verification that accepts every nonce not below the stored one
NonceNotBelow(nonce, stored) == ~U32Less(nonce, stored)

\* the nonce check of verify_identity: nonce != stored_info.nonce fails
NonceMatches(nonce, stored) == nonce = stored

\* a verification that never compares the hashes
HashNeverCompared(stored, hashed) == TRUE

\* the hash check of verify_identity: *stored_info.hash != hashed is false
HashMatches(stored, hashed) == stored = hashed

\* a record that stores the hash of the empty string
AccountInfoOfNothing(hash) == [hash |-> HexSha256(<<>>), nonce |-> U32(0)]

\* a record that starts at nonce 1
AccountInfoFromOne(hash) == [hash |-> hash, nonce |-> U32(1)]

\* AccountInfo { hash, nonce: 0 }: the record of a new registration
AccountInfo(hash) == [hash |-> hash, nonce |-> U32(0)]

\* a method's outcome together with the store it leaves in self
Outcome(res, ids) == [res |-> res, ids |-> ids]

register_identity(ids, pub_key, signature) ==
    LET valid == verify_signature(pub_key, signature, RegistrationMessage)
        account_info == AccountInfo(HexSha256(pub_key))
    IN  IF valid.kind # "ok" THEN Outcome(Panic, ids)
        ELSE IF ~valid.value THEN Outcome(Err("Invalid signature"), ids)
        ELSE IF pub_key \in DOMAIN ids
        THEN Outcome(Err("Identity already exists"), Insert(ids, pub_key, account_info))
        ELSE Outcome(Ok(TRUE), Insert(ids, pub_key, account_info))

\* an increment that advances the nonce of every record of the store
IncrementAll(ids, k, overflow_checks) ==
    Outcome(Ok(TRUE),
            [a \in DOMAIN ids |-> [ids[a] EXCEPT !.nonce = WrappingAdd1(ids[a].nonce)]])

\* stored_info.nonce += 1 on a u32: with overflow checks the addition
\* panics at u32::MAX, without them it wraps
Increment(ids, k, overflow_checks) ==
    IF ids[k].nonce = U32Max /\ overflow_checks
    THEN Outcome(Panic, ids)
    ELSE Outcome(Ok(TRUE),
                 [ids EXCEPT ![k].nonce = WrappingAdd1(ids[k].nonce)])

\* a verification that checks the signature before it looks the account up
ProofBeforeLookup(ids, pub_key, nonce, blobs, signature, overflow_checks) ==
    LET valid == verify_signature(pub_key, signature, VerifyMessage(nonce, blobs))
    IN  IF valid.kind # "ok" THEN Outcome(Panic, ids)
        ELSE IF ~valid.value THEN Outcome(Err("Invalid signature"), ids)
        ELSE IF pub_key \notin DOMAIN ids THEN Outcome(Err("Identity not found"), ids)
        ELSE IF ~NonceMatches(nonce, ids[pub_key].nonce)
        THEN Outcome(Err("Invalid nonce"), ids)
        ELSE IF ~HashMatches(ids[pub_key].hash, HexSha256(pub_key))
        THEN Outcome(Ok(FALSE), ids)
        ELSE Increment(ids, pub_key, overflow_checks)

verify_identity(ids, pub_key, nonce, blobs, signature, overflow_checks) ==
    IF pub_key \notin DOMAIN ids THEN Outcome(Err("Identity not found"), ids)
    ELSE IF ~NonceMatches(nonce, ids[pub_key].nonce) THEN Outcome(Err("Invalid nonce"), ids)
    ELSE LET valid == verify_signature(pub_key, signature, VerifyMessage(nonce, blobs))
         IN  IF valid.kind # "ok" THEN Outcome(Panic, ids)
             ELSE IF ~valid.value THEN Outcome(Err("Invalid signature"), ids)
             ELSE IF ~HashMatches(ids[pub_key].hash, HexSha256(pub_key))
             THEN Outcome(Ok(FALSE), ids)
             ELSE Increment(ids, pub_key, overflow_checks)

\* IdentityAction of the ECDSA contract
RegisterIdentity(sig) ==
    [tag |-> "RegisterIdentity", nonce |-> U32(0), has_signature |-> TRUE, signature |-> sig]

VerifyIdentity(n, has, sig) ==
    [tag |-> "VerifyIdentity", nonce |-> n, has_signature |-> has, signature |-> sig]

\* the actions submitted together with the batch b of other blobs
EcdsaActions(b) ==
    {RegisterIdentity(sig) : sig \in IF b = <<>> THEN RegisterSignatures ELSE {}}
        \cup UNION {{VerifyIdentity(n, TRUE, sig) : sig \in VerifySignatures(n, b)} :
                        n \in NonceInputs}
        \cup {VerifyIdentity(n, FALSE, NotHexSignature) :
                  n \in IF b = <<>> THEN NonceInputs ELSE {}}

\* acting account identifiers
EcdsaAccounts ==
    {<<"a", "a", ".", "c">>, <<"a", "c", ".", "c">>, <<"a", "a", "c">>,
     <<"a", "a", ".", ".", "c">>, <<"a", "a", ".", "a">>,
     <<"a", ".", "a", ".", "c">>}

\* the build either checks arithmetic overflow or wraps; the two differ only
\* when the addressed nonce is u32::MAX
OverflowChoices(ids, k) ==
    IF k \in DOMAIN ids /\ ids[k].nonce = U32Max THEN BOOLEAN ELSE {FALSE}

\* the credential key the dispatcher derives from the acting account
StripSuffix(account, contract_name) ==
    TrimEndMatches(TrimEndMatches(account, contract_name), <<".">>)

\* a RunResult: Ok((output, state)), Err(message), or no result (panic);
\* method is the result of the method the dispatcher called, self the store
\* that method left behind
RunResult(out, msg, method, self) ==
    [out |-> out, msg |-> msg, method |-> method, self |-> self]

NoMethod == [kind |-> "none", value |-> FALSE, msg |-> ""]

\* a dispatcher that takes every signature field as present
NeverMissing(action) == FALSE

\* the arm signature: None of a VerifyIdentity action
MissingSignature(action) == ~action.has_signature

execute_action(state, action, contract_name, account, blobs, overflow_checks) ==
    IF ~EndsWith(account, contract_name)
    THEN RunResult("Err", "Invalid account extension", NoMethod, state)
    ELSE
    LET pub_key == StripSuffix(account, contract_name) IN
    IF action.tag = "RegisterIdentity"
    THEN LET r == register_identity(state, pub_key, action.signature) IN
         CASE r.res.kind = "ok" -> RunResult("Ok", "Identity registered", r.res, r.ids)
           [] r.res.kind = "err" -> RunResult("Err", r.res.msg, r.res, r.ids)
           [] OTHER -> RunResult("panic", "", r.res, r.ids)
    ELSE IF MissingSignature(action)
    THEN RunResult("Err", "Identity verification failed, missing signature", NoMethod, state)
    ELSE LET r == verify_identity(state, pub_key, action.nonce, blobs,
                                  action.signature, overflow_checks) IN
         CASE r.res.kind = "ok" /\ r.res.value ->
                  RunResult("Ok", "Identity verified", r.res, r.ids)
           [] r.res.kind = "ok" /\ ~r.res.value ->
                  RunResult("Err", "Identity verification failed", r.res, r.ids)
           [] r.res.kind = "err" ->
                  RunResult("Err", "Error verifying identity", r.res, r.ids)
           [] OTHER -> RunResult("panic", "", r.res, r.ids)

----------------------------------------------------------------------------
(* OIDC scheme *)

OpenIdContext(iss, aud) == [issuer |-> iss, audience |-> aud]

Contexts == {OpenIdContext(<<"idp">>, <<"app1">>)}

\* a compact JWT: the number of '.'-separated segments, the key that signed
\* header.payload, whether the payload is JSON claims, and the claims
Jwt(segs, k, json, sub, iss, aud) ==
    [segments |-> segs, signer |-> k, json |-> json,
     sub |-> sub, iss |-> iss, aud |-> aud]

TokenU1 == Jwt(3, "K1", TRUE, <<"u1">>, <<"idp">>, <<"app1">>)

TokenU2 == Jwt(3, "K1", TRUE, <<"u2">>, <<"idp">>, <<"app1">>)

TokenOtherIssuer == Jwt(3, "K1", TRUE, <<"u1">>, <<"evil">>, <<"app1">>)

TokenOtherAudience == Jwt(3, "K1", TRUE, <<"u1">>, <<"idp">>, <<"app2">>)

TokenTwoSegments == Jwt(2, "K1", TRUE, <<"u1">>, <<"idp">>, <<"app1">>)

TokenBadPayload == Jwt(3, "K1", FALSE, <<>>, <<>>, <<>>)

Tokens ==
    {TokenU1, TokenU2, TokenOtherIssuer, TokenOtherAudience,
     TokenTwoSegments, TokenBadPayload}

OidcAccounts == {<<"a", ".", "c">>, <<"a">>}

\* jwt::verify_jwt_signature: the claims, or an error
verify_jwt_signature(token, jwk_pub_key, context) ==
    IF token.segments # 3 THEN Err("MalformedToken")
    ELSE IF token.signer # jwk_pub_key THEN Err("InvalidSignature")
    ELSE IF ~token.json THEN Err("ClaimsDecodeError")
    ELSE IF token.iss # context.issuer \/ token.aud # context.audience
    THEN Err("ClaimMismatch")
    ELSE Ok(TRUE)

\* format!("{sub}:{issuer}")
CredentialId(sub, issuer) == sub \o <<":">> \o issuer

OidcIdentity_register_identity(ids, account, context, jwk_pub_key, private_input) ==
    LET data == verify_jwt_signature(private_input, jwk_pub_key, context)
        id == CredentialId(private_input.sub, private_input.iss)
        account_info == AccountInfo(HexSha256(id))
    IN  IF data.kind # "ok" THEN Outcome(Panic, ids)
        ELSE IF account \in DOMAIN ids
        THEN Outcome(Err("Identity already exists"), Insert(ids, account, account_info))
        ELSE Outcome(Ok(TRUE), Insert(ids, account, account_info))

OidcIdentity_verify_identity(ids, account, nonce, context, jwk_pub_key, private_input, overflow_checks) ==
    IF account \notin DOMAIN ids THEN Outcome(Err("Identity not found"), ids)
    ELSE IF ~NonceMatches(nonce, ids[account].nonce) THEN Outcome(Err("Invalid nonce"), ids)
    ELSE LET data == verify_jwt_signature(private_input, jwk_pub_key, context)
             id == CredentialId(private_input.sub, private_input.iss)
         IN  IF data.kind # "ok" THEN Outcome(Panic, ids)
             ELSE IF ~HashMatches(ids[account].hash, HexSha256(id)) THEN Outcome(Ok(FALSE), ids)
             ELSE Increment(ids, account, overflow_checks)

\* serde_json::to_string of an AccountInfo
to_string(info) ==
    <<"{", "\"hash\"", ":", "\"">> \o info.hash
        \o <<"\"", ",", "\"nonce\"", ":">> \o FormatU32(info.nonce) \o <<"}">>

\* a lookup that advances the nonce it has reported
InfoThenIncrement(ids, account) ==
    IF account \in DOMAIN ids
    THEN Outcome([kind |-> "ok", value |-> TRUE, msg |-> "",
                  info |-> to_string(ids[account])],
                 [ids EXCEPT ![account].nonce = WrappingAdd1(ids[account].nonce)])
    ELSE Outcome([kind |-> "err", value |-> FALSE, msg |-> "Identity not found",
                  info |-> <<>>], ids)

\* get_identity_info: the JSON of the account's record
OidcIdentity_get_identity_info(ids, account) ==
    IF account \in DOMAIN ids
    THEN Outcome([kind |-> "ok", value |-> TRUE, msg |-> "",
                  info |-> to_string(ids[account])], ids)
    ELSE Outcome([kind |-> "err", value |-> FALSE, msg |-> "Identity not found",
                  info |-> <<>>], ids)

\* IdentityAction of the OIDC provider
OidcAction(tag, account, nonce, context, jwk) ==
    [tag |-> tag, account |-> account, nonce |-> nonce,
     context |-> context, jwk_pub_key |-> jwk]

\* the key and token offered with a call: any token with the key that
\* signed the tokens, or a token with another key
OidcProofs == {<<"K1", t>> : t \in Tokens} \cup {<<"K2", TokenU1>>}

\* tokens whose subject or issuer holds a colon
TokenColonInSubject == Jwt(3, "K1", TRUE, <<"a", ":", "a">>, <<"c">>, <<"app1">>)

TokenColonInIssuer == Jwt(3, "K1", TRUE, <<"a">>, <<"a", ":", "c">>, <<"app1">>)

\* what a method call is offered: the context, the key and the token; the
\* account "a" is also offered the tokens with a colon, each with the
\* context of its own issuer
OidcOffers(account) ==
    {<<c, p[1], p[2]>> : c \in Contexts, p \in OidcProofs}
        \cup IF account = <<"a">>
             THEN {<<OpenIdContext(t.iss, t.aud), "K1", t>> :
                       t \in {TokenColonInSubject, TokenColonInIssuer}}
             ELSE {}

\* the proofs offered to the dispatcher
OidcDispatchedProofs == {<<"K1", TokenU1>>, <<"K1", TokenU2>>, <<"K1", TokenTwoSegments>>}

OidcActions(jwk) ==
    {OidcAction("RegisterIdentity", a, U32(0), c, jwk) :
        a \in OidcAccounts, c \in Contexts}
      \cup {OidcAction("VerifyIdentity", a, n, c, jwk) :
                a \in OidcAccounts, n \in NonceInputs, c \in Contexts}
      \cup {OidcAction("GetIdentityInfo", a, U32(0), c, jwk) :
                a \in OidcAccounts, c \in Contexts}

provider_execute_action(state, action, private_input, overflow_checks) ==
    IF action.tag = "RegisterIdentity"
    THEN LET r == OidcIdentity_register_identity(state, action.account, action.context,
                                                 action.jwk_pub_key, private_input) IN
         CASE r.res.kind = "ok" ->
                  RunResult("Ok", "Successfully registered identity", r.res, r.ids)
           [] r.res.kind = "err" ->
                  RunResult("Err", "Failed to register identity", r.res, r.ids)
           [] OTHER -> RunResult("panic", "", r.res, r.ids)
    ELSE IF action.tag = "VerifyIdentity"
    THEN LET r == OidcIdentity_verify_identity(state, action.account, action.nonce,
                                               action.context, action.jwk_pub_key,
                                               private_input, overflow_checks) IN
         CASE r.res.kind = "ok" /\ r.res.value ->
                  RunResult("Ok", "Identity verified", r.res, r.ids)
           [] r.res.kind = "ok" /\ ~r.res.value ->
                  RunResult("Err", "Identity verification failed", r.res, r.ids)
           [] r.res.kind = "err" ->
                  RunResult("Err", "Error verifying identity", r.res, r.ids)
           [] OTHER -> RunResult("panic", "", r.res, r.ids)
    ELSE LET r == OidcIdentity_get_identity_info(state, action.account) IN
         IF r.res.kind = "ok"
         THEN RunResult("Ok", "Retrieved identity info",
                        [kind |-> "ok", value |-> TRUE, msg |-> ""], r.ids)
         ELSE RunResult("Err", "Failed to get identity info",
                        [kind |-> "err", value |-> FALSE, msg |-> r.res.msg], r.ids)

----------------------------------------------------------------------------
(* State digest: bincode with the standard configuration *)

\* the byte of each character: UTF-8 for the ASCII characters, one value
\* above the byte range for each symbolic unit of a hash
Utf8 ==
    ("." :> 46) @@ (":" :> 58) @@ ("a" :> 97) @@ ("c" :> 99)
        @@ ("sha256:" :> 256) @@ ("u1" :> 257) @@ ("u2" :> 258)
        @@ ("idp" :> 259) @@ ("evil" :> 260)

\* the character of a byte; a byte outside the alphabet is shown by number
CharOf(b) ==
    IF \E c \in DOMAIN Utf8 : Utf8[c] = b
    THEN CHOOSE c \in DOMAIN Utf8 : Utf8[c] = b
    ELSE ToString(b)

\* Ord for String: bytewise lexicographic
RECURSIVE StrLess(_, _)
StrLess(s, t) ==
    IF t = <<>> THEN FALSE
    ELSE IF s = <<>> THEN TRUE
    ELSE IF Utf8[s[1]] # Utf8[t[1]] THEN Utf8[s[1]] < Utf8[t[1]]
    ELSE StrLess(Tail(s), Tail(t))

\* an iteration that visits longer keys first
RECURSIVE LongestFirst(_)
LongestFirst(keys) ==
    IF keys = {} THEN <<>>
    ELSE LET first == CHOOSE k \in keys :
                          \A x \in keys \ {k} : Len(x) < Len(k) \/ (Len(x) = Len(k) /\ StrLess(k, x))
         IN  <<first>> \o LongestFirst(keys \ {first})

\* BTreeMap iteration: the keys in ascending order
RECURSIVE Ascending(_)
Ascending(keys) ==
    IF keys = {} THEN <<>>
    ELSE LET least == CHOOSE k \in keys : \A x \in keys \ {k} : StrLess(k, x)
         IN  <<least>> \o Ascending(keys \ {least})

\* varint of a usize length: one byte below 251, else the marker 251 and
\* a little-endian u16 (longer buffers do not occur)
EncodeLen(n) ==
    IF n < 251 THEN <<n>> ELSE <<251, n % 256, n \div 256>>

\* a varint that keeps the low byte only
EncodeLowByte(n) == <<n.lo % 256>>

\* varint of a u32: one byte below 251, the marker 251 and a little-endian
\* u16 below 2^16, else the marker 252 and a little-endian u32
EncodeU32(n) ==
    IF n.hi = 0 THEN EncodeLen(n.lo)
    ELSE <<252, n.lo % 256, n.lo \div 256, n.hi % 256, n.hi \div 256>>

EncodeString(s) == EncodeLen(Len(s)) \o [i \in 1..Len(s) |-> Utf8[s[i]]]

EncodeAccountInfo(info) == EncodeString(info.hash) \o EncodeU32(info.nonce)

RECURSIVE EncodeEntries(_, _)
EncodeEntries(ids, keys) ==
    IF keys = <<>> THEN <<>>
    ELSE EncodeString(keys[1]) \o EncodeAccountInfo(ids[keys[1]])
             \o EncodeEntries(ids, Tail(keys))

\* bincode::encode_to_vec(self, standard()): the number of entries, then
\* each key with its AccountInfo, in the map's iteration order
as_digest(ids) ==
    EncodeLen(Cardinality(DOMAIN ids)) \o EncodeEntries(ids, Ascending(DOMAIN ids))

\* a read at position next of a buffer: the value and the position after
\* it, or UnexpectedEnd / an invalid integer
Read(v, next) == [ok |-> TRUE, value |-> v, next |-> next]

ReadFailed == [ok |-> FALSE, value |-> 0, next |-> 0]

ReadLen(bytes, p) ==
    IF p > Len(bytes) THEN ReadFailed
    ELSE IF bytes[p] < 251 THEN Read(bytes[p], p + 1)
    ELSE IF bytes[p] = 251 /\ p + 2 <= Len(bytes)
    THEN Read(bytes[p + 1] + 256 * bytes[p + 2], p + 3)
    ELSE ReadFailed

ReadU32(bytes, p) ==
    IF p > Len(bytes) THEN ReadFailed
    ELSE IF bytes[p] < 251 THEN Read(U32(bytes[p]), p + 1)
    ELSE IF bytes[p] = 251 /\ p + 2 <= Len(bytes)
    THEN Read(U32(bytes[p + 1] + 256 * bytes[p + 2]), p + 3)
    ELSE IF bytes[p] = 252 /\ p + 4 <= Len(bytes)
    THEN Read([hi |-> bytes[p + 3] + 256 * bytes[p + 4],
               lo |-> bytes[p + 1] + 256 * bytes[p + 2]], p + 5)
    ELSE ReadFailed

ReadString(bytes, p) ==
    LET n == ReadLen(bytes, p) IN
    IF ~n.ok \/ n.next + n.value - 1 > Len(bytes) THEN ReadFailed
    ELSE Read([i \in 1..n.value |-> CharOf(bytes[n.next + i - 1])], n.next + n.value)

ReadAccountInfo(bytes, p) ==
    LET hash == ReadString(bytes, p)
        nonce == ReadU32(bytes, hash.next)
    IN  IF ~hash.ok \/ ~nonce.ok THEN ReadFailed
        ELSE Read([hash |-> hash.value, nonce |-> nonce.value], nonce.next)

\* the remaining n entries, inserted one by one into the map read so far
RECURSIVE ReadEntries(_, _, _, _)
ReadEntries(bytes, p, n, ids) ==
    IF n = 0 THEN Read(ids, p)
    ELSE LET key == ReadString(bytes, p)
             info == ReadAccountInfo(bytes, key.next)
         IN  IF ~key.ok \/ ~info.ok THEN ReadFailed
             ELSE ReadEntries(bytes, info.next, n - 1, Insert(ids, key.value, info.value))

\* bincode::decode_from_slice(&state.0, standard()); bytes after the value
\* are ignored
decode_from_slice(bytes) ==
    LET n == ReadLen(bytes, 1) IN
    IF ~n.ok THEN ReadFailed ELSE ReadEntries(bytes, n.next, n.value, EmptyStore)

\* From<StateDigest>: the decoded store; the unwrap() panics when the bytes
\* do not decode
from_state_digest(digest) ==
    LET decoded == decode_from_slice(digest) IN
    IF decoded.ok THEN Outcome(Ok(TRUE), decoded.value) ELSE Outcome(Panic, EmptyStore)

----------------------------------------------------------------------------
(* Entry points of the contracts *)

\* what an entry point reads from sdk::ContractInput besides the action:
\* the digest of the initial state, the index of the identity blob, whether
\* that blob parses as an IdentityAction, whether the private input is
\* UTF-8, the blobs of the transaction
EntryInput(initial_state, index, parsed, utf8, blobs) ==
    [initial_state |-> initial_state, index |-> index, parsed |-> parsed,
     utf8 |-> utf8, blobs |-> blobs]

NoInput == EntryInput(<<>>, 0, TRUE, TRUE, <<>>)

\* the blob that carries the IdentityAction
IdentityBlob == Blob(ContractName, <<0>>)

\* blobs.remove(index), with index counted from 0
RemoveAt(blobs, index) ==
    SubSeq(blobs, 1, index) \o SubSeq(blobs, index + 2, Len(blobs))

\* execute of the ECDSA contract
execute(input, action, identity, overflow_checks) ==
    IF ~input.parsed
    THEN RunResult("Err", "Failed to parse action", NoMethod, EmptyStore)
    ELSE LET state == from_state_digest(input.initial_state) IN
    IF state.res.kind = "panic" THEN RunResult("panic", "", NoMethod, EmptyStore)
    ELSE IF input.index >= Len(input.blobs)
    THEN RunResult("Err", "No blob", NoMethod, state.ids)
    ELSE execute_action(state.ids, action,
                        input.blobs[input.index + 1].contract_name, identity,
                        RemoveAt(input.blobs, input.index), overflow_checks)

\* execute of the OIDC contract
oidc_execute(input, action, private_input, overflow_checks) ==
    IF ~input.parsed
    THEN RunResult("Err", "Failed to parse input blob", NoMethod, EmptyStore)
    ELSE LET state == from_state_digest(input.initial_state) IN
    IF state.res.kind = "panic" THEN RunResult("panic", "", NoMethod, EmptyStore)
    ELSE IF ~input.utf8 THEN RunResult("panic", "", NoMethod, state.ids)
    ELSE provider_execute_action(state.ids, action, private_input, overflow_checks)

\* the digest without its last byte
Truncated(digest) == SubSeq(digest, 1, Len(digest) - 1)

\* the digest with an entry count one above the entries that follow
Overcounted(digest) == <<digest[1] + 1>> \o Tail(digest)

\* the store an entry point starts from (empty when there is none)
DecodedState(input) ==
    IF input.parsed THEN from_state_digest(input.initial_state).ids ELSE EmptyStore

----------------------------------------------------------------------------
(* Host of the ECDSA scheme: custody of the signing key (utils.rs) *)

\* account labels, passwords, and what the random generators return:
\* SigningKey::random and the 12 nonce bytes of OsRng.fill_bytes
AccountLabels == {"alice", "bob"}

SigningKeys == {"sk1", "sk2"}

\* Result<T, Error> of the host functions
HostOk(value) == [kind |-> "ok", value |-> value]

HostErr(msg) == [kind |-> "err", value |-> msg]

\* PBKDF2-HMAC-SHA256 of the password with the fixed salt
derive_key(password) == <<"pbkdf2", "some_fixed_salt", password>>

\* AES-256-GCM: the ciphertext opens only under the key and the nonce it
\* was made with
AesEncrypt(key, nonce, plaintext) == [key |-> key, nonce |-> nonce, plain |-> plaintext]

AesDecrypt(key, nonce, ciphertext) ==
    IF ciphertext.key = key /\ ciphertext.nonce = nonce
    THEN HostOk(ciphertext.plain)
    ELSE HostErr("Decryption failed")

to_pkcs8_der(private_key) == <<"pkcs8", private_key>>

from_pkcs8_der(der_bytes) ==
    IF Len(der_bytes) = 2 /\ der_bytes[1] = "pkcs8" /\ der_bytes[2] \in SigningKeys
    THEN HostOk(der_bytes[2])
    ELSE HostErr("Invalid private key format")

\* hex of the uncompressed SEC1 point of VerifyingKey::from(&private_key)
EncodedPublicKey(private_key) ==
    IF private_key = "sk1" THEN <<"a", "a">> ELSE <<"a", "c">>

\* a path of the key directory: nothing there, or a file with its bytes
KeyFile(data) == [exists |-> TRUE, data |-> data]

NoKeyFiles == [account \in AccountLabels |-> [exists |-> FALSE, data |-> <<>>]]

\* encrypt_key: the bytes written to the file, nonce first, then ciphertext
encrypt_key(password, private_key, nonce_bytes) ==
    <<nonce_bytes,
      AesEncrypt(derive_key(password), nonce_bytes, to_pkcs8_der(private_key))>>

\* decrypt_key on the bytes of the file
decrypt_key(password, data) ==
    IF Len(data) < 1 THEN HostErr("Invalid encrypted data")
    ELSE LET der_bytes == AesDecrypt(derive_key(password), data[1], data[2])
         IN  IF der_bytes.kind # "ok" THEN der_bytes
             ELSE from_pkcs8_der(der_bytes.value)

\* a host that never finds a key file
AlwaysGenerate(path) == FALSE

\* account_path.exists()
PathExists(path) == path.exists

\* what a call of handle_secp384r1_identity returns and leaves on disk
HostResult(out, private_key, message, files) ==
    [out |-> out,
     public_key |-> IF out = "Ok" THEN EncodedPublicKey(private_key) ELSE <<>>,
     signature |-> IF out = "Ok"
                   THEN Sign(EncodedPublicKey(private_key), message)
                   ELSE NotHexSignature,
     files |-> files]

\* handle_secp384r1_identity; random_key and random_nonce are what the
\* generators return when they are asked
handle_secp384r1_identity(files, account, password, message, random_key, random_nonce) ==
    IF PathExists(files[account])
    THEN LET private_key == decrypt_key(password, files[account].data)
         IN  IF private_key.kind # "ok"
             THEN HostResult("panic", "sk1", message, files)
             ELSE HostResult("Ok", private_key.value, message, files)
    ELSE HostResult("Ok", random_key, message,
                    [files EXCEPT ![account] =
                         KeyFile(encrypt_key(password, random_key, random_nonce))])

\* a call of the host: its inputs, what it returned, the key directory
\* before it
CustodyCall(account, password, message, random_key, result, pre) ==
    [account |-> account, password |-> password, message |-> message,
     generated |-> random_key, out |-> result.out,
     public_key |-> result.public_key, signature |-> result.signature,
     pre |-> pre]

NoCustodyCall ==
    CustodyCall("alice", "pw1", RegistrationMessage, "sk1",
                HostResult("none", "sk1", RegistrationMessage, NoKeyFiles), NoKeyFiles)

----------------------------------------------------------------------------
(* Host of the WebAuthn scheme: submission of a command (main.rs) *)

\* cli.contract_name (its default)
SimpleIdentity == <<"simple_identity">>

Usernames == {<<"alice">>, <<"bob">>}

\* hex arguments of the commands: one that decodes, one that does not
HexArguments == {<<"a", "c">>, <<"a">>}

\* hex::decode of an argument that decodes: one byte for two digits
HexDecode(s) == [i \in 1..(Len(s) \div 2) |-> <<s[2 * i - 1], s[2 * i]>>]

\* the commands with their arguments as given on the command line
RegisterWebAuthn(username, credential_id, public_key) ==
    [command |-> "RegisterWebAuthn", username |-> username,
     hex |-> <<credential_id, public_key>>]

StartWebAuthn(username, challenge) ==
    [command |-> "StartWebAuthn", username |-> username, hex |-> <<challenge>>]

VerifyWebAuthn(username, signature, authenticator_data, client_data_json) ==
    [command |-> "VerifyWebAuthn", username |-> username,
     hex |-> <<signature, authenticator_data, client_data_json>>]

Commands ==
    {RegisterWebAuthn(u, h, <<"a", "c">>) : u \in Usernames, h \in HexArguments}
        \cup {StartWebAuthn(u, h) : u \in Usernames, h \in HexArguments}
        \cup {VerifyWebAuthn(<<"alice">>, <<"a", "c">>, h, <<"a", "c">>) :
                  h \in HexArguments}

\* every hex argument of the command decodes
ArgumentsDecode(c) == \A i \in 1..Len(c.hex) : HexDecodeOk(c.hex[i])

\* the WebAuthnAction of a command
WebAuthnAction(c) ==
    [tag |-> CASE c.command = "RegisterWebAuthn" -> "Register"
               [] c.command = "StartWebAuthn" -> "StartAuthentication"
               [] OTHER -> "VerifyAuthentication",
     username |-> c.username,
     fields |-> [i \in 1..Len(c.hex) |-> HexDecode(c.hex[i])]]

\* vec![sdk::Blob { contract_name, data }], the data being
\* bincode::encode_to_vec of the action
CommandBlobs(c) == <<Blob(SimpleIdentity, <<"bincode", WebAuthnAction(c)>>)>>

BlobTransaction(identity, blobs) ==
    [kind |-> "blob", identity |-> identity, blobs |-> blobs]

\* the hash the node answers a transaction with
TxHash(tx) == <<"tx", tx>>

\* an input built with the blobs of no command
InputOfOtherBlobs(initial_state, identity, tx_hash, blobs) ==
    [initial_state |-> initial_state, identity |-> identity, tx_hash |-> tx_hash,
     private_input |-> <<>>, blobs |-> <<>>, index |-> 0]

ContractInput(initial_state, identity, tx_hash, blobs) ==
    [initial_state |-> initial_state, identity |-> identity, tx_hash |-> tx_hash,
     private_input |-> <<>>, blobs |-> blobs, index |-> 0]

\* the proof of prover.prove(inputs)
Prove(inputs) == [proves |-> inputs]

ProofTransaction(proof, contract_name) ==
    [kind |-> "proof", proof |-> proof, contract_name |-> contract_name]

\* the inputs of a command that has not built them yet
NoInputs == ContractInput(<<>>, <<>>, <<>>, <<>>)

\* the command being run: where it is (pc), the steps it has completed,
\* and its local variables
Process(pc, runs, command, steps, blob_tx, blob_tx_hash, initial_state, inputs) ==
    [pc |-> pc, runs |-> runs, command |-> command, steps |-> steps,
     blob_tx |-> blob_tx, blob_tx_hash |-> blob_tx_hash,
     initial_state |-> initial_state, inputs |-> inputs,
     proof |-> Prove(NoInputs)]

----------------------------------------------------------------------------
(* State *)

\* the last call: its inputs, the result of the method (res), the result of
\* the dispatcher (out, msg; "none" for a direct method call), the store
\* before the call (pre) and the store the method left in self
\* (input: what an entry point read besides these; info: the string a
\* get_identity_info call returned; has_signature: whether the signature
\* of an ECDSA VerifyIdentity was Some)
CallRecord(level, op, account, key, nonce, blobs, signature, token, jwk, context, result, pre) ==
    [level |-> level, op |-> op, account |-> account, key |-> key,
     nonce |-> nonce, blobs |-> blobs, signature |-> signature,
     token |-> token, jwk |-> jwk, context |-> context,
     res |-> result.method, out |-> result.out, msg |-> result.msg,
     pre |-> pre, self |-> result.self, input |-> NoInput, info |-> <<>>,
     has_signature |-> TRUE]

NoContext == OpenIdContext(<<>>, <<>>)

NoCall ==
    CallRecord("none", "none", <<>>, <<>>, U32(0), <<>>, NotHexSignature,
               TokenBadPayload, "K1", NoContext,
               RunResult("none", "", NoMethod, EmptyStore), EmptyStore)

\* what makes two verify calls the same call
Request(c) ==
    [key |-> c.key, nonce |-> c.nonce, blobs |-> c.blobs,
     signature |-> c.signature, token |-> c.token, jwk |-> c.jwk,
     context |-> c.context]

VerifiedTrue(c) == c.op = "verify" /\ c.res.kind = "ok" /\ c.res.value

\* the verify call whose repetition is watched: the first verification of
\* a freshly registered account
ReplayProbe(s) ==
    IF s = "ecdsa"
    THEN [key |-> <<"a", "c">>, nonce |-> U32(0), blobs |-> <<>>,
          signature |-> Sign(<<"a", "c">>, VerifyMessage(U32(0), <<>>)),
          token |-> TokenBadPayload, jwk |-> "K1", context |-> NoContext]
    ELSE [key |-> <<"a">>, nonce |-> U32(0), blobs |-> <<>>,
          signature |-> NotHexSignature, token |-> TokenU1, jwk |-> "K1",
          context |-> OpenIdContext(<<"idp">>, <<"app1">>)]

\* history: how often the watched call has returned true ("never", "once",
\* "again")
Remember(c) ==
    IF VerifiedTrue(c) /\ Request(c) = ReplayProbe(scheme)
    THEN remembered' = IF remembered = "never" THEN "once" ELSE "again"
    ELSE remembered' = remembered

\* a store in which one account has completed 2^32 - 1 verifications
LongLivedStore(s) ==
    IF s = "ecdsa"
    THEN Insert(EmptyStore, <<"a", "a">>,
                [hash |-> HexSha256(<<"a", "a">>), nonce |-> U32Max])
    ELSE Insert(EmptyStore, <<"a", ".", "c">>,
                [hash |-> HexSha256(CredentialId(<<"u1">>, <<"idp">>)), nonce |-> U32Max])

\* no host has run
HostIdle ==
    /\ key_files = NoKeyFiles
    /\ custody = NoCustodyCall
    /\ returned = [account \in AccountLabels |-> {}]
    /\ cli = Process("none", 0, StartWebAuthn(<<"alice">>, <<"a">>), <<>>,
                     BlobTransaction(<<>>, <<>>), <<>>, <<>>, NoInputs)
    /\ node = [requests |-> <<>>, state |-> <<0>>]

Init ==
    /\ scheme \in {"ecdsa", "oidc"}
    /\ identities \in {EmptyStore, LongLivedStore(scheme)}
    /\ call = NoCall
    /\ remembered = "never"
    /\ HostIdle

OpOf(tag) ==
    CASE tag = "RegisterIdentity" -> "register"
      [] tag = "VerifyIdentity" -> "verify"
      [] OTHER -> "info"

\* a dispatcher that hands back the store its method left behind whatever
\* the result
StateOfAnyResult(result, state) == result.self

\* program_output.map(|output| (output, state, vec![])): the store of the
\* run is handed back with Ok only; after an Err or a panic the contract
\* keeps the state the call started from
SuccessorState(result, state) ==
    IF result.out = "Ok" THEN result.self ELSE state

----------------------------------------------------------------------------
(* Operations *)

\* the ECDSA contract runs one action; the state it returns with Ok becomes
\* the contract's state, an Err or a panic leaves the state as it was
EcdsaExecuteAction ==
    /\ scheme = "ecdsa"
    /\ \E blobs \in BlobBatches, account \in EcdsaAccounts :
       \E action \in EcdsaActions(blobs),
          overflow_checks \in OverflowChoices(identities,
                                              StripSuffix(account, ContractName)) :
       \E r \in {execute_action(identities, action, ContractName, account,
                                 blobs, overflow_checks)} :
       \E c \in {[CallRecord("execute", OpOf(action.tag), account,
                              StripSuffix(account, ContractName), action.nonce,
                              blobs, action.signature, TokenBadPayload, "K1",
                              NoContext, r, identities)
                     EXCEPT !.has_signature = action.has_signature]} :
         /\ identities' = SuccessorState(r, identities)
         /\ call' = c
         /\ Remember(c)
    /\ UNCHANGED <<scheme, custodyVars, submissionVars>>

\* the OIDC contract runs one action through the provider's dispatcher
OidcExecuteAction ==
    /\ scheme = "oidc"
    /\ \E proof \in OidcDispatchedProofs :
       \E action \in OidcActions(proof[1]), private_input \in {proof[2]} :
       \E overflow_checks \in OverflowChoices(identities, action.account) :
       \E r \in {provider_execute_action(identities, action, private_input,
                                          overflow_checks)} :
       \E c \in {CallRecord("execute", OpOf(action.tag), action.account,
                             action.account, action.nonce, <<>>, NotHexSignature,
                             private_input, action.jwk_pub_key, action.context,
                             r, identities)} :
         /\ identities' = SuccessorState(r, identities)
         /\ call' = c
         /\ Remember(c)
    /\ UNCHANGED <<scheme, custodyVars, submissionVars>>

\* a blob of a contract whose name holds spaces and brackets
SpacedBlob == Blob(<<"c", " ", "[", "1", "]", " ", "c">>, <<1>>)

\* the layouts of a transaction: the blobs and the index of the identity
\* blob among them (the third one has no blob at the index; the last two
\* hold the same two other blobs in opposite orders)
BlobLayouts ==
    {<<<<IdentityBlob>>, 0>>, <<<<Blob(<<"c">>, <<1>>), IdentityBlob>>, 1>>,
     <<<<IdentityBlob>>, 1>>,
     <<<<IdentityBlob, SpacedBlob, Blob(<<"c">>, <<1>>)>>, 0>>,
     <<<<Blob(<<"c">>, <<1>>), IdentityBlob, SpacedBlob>>, 1>>}

\* the contract inputs with something wrong: a corrupted copy of the
\* digest, an identity blob that does not parse (with either digest), a
\* private input that is not UTF-8
BrokenInputs(digest, with_private_input) ==
    {EntryInput(Truncated(digest), 0, TRUE, TRUE, <<IdentityBlob>>),
     EntryInput(Overcounted(digest), 0, TRUE, TRUE, <<IdentityBlob>>),
     EntryInput(Truncated(digest), 0, FALSE, TRUE, <<IdentityBlob>>),
     EntryInput(digest, 0, FALSE, TRUE, <<IdentityBlob>>)}
        \cup IF with_private_input
             THEN {EntryInput(digest, 0, TRUE, FALSE, <<IdentityBlob>>)}
             ELSE {}

\* what the entry points are run on: every action with the digest of the
\* contract's state in every layout, and a verification with each broken
\* input
EntryCases(digest, layouts, tags, with_private_input) ==
    {[tag |-> t, input |-> EntryInput(digest, l[2], TRUE, TRUE, l[1])] :
        t \in tags, l \in layouts}
        \cup {[tag |-> "VerifyIdentity", input |-> i] :
                  i \in BrokenInputs(digest, with_private_input)}

\* the action the owner of the key k submits in a transaction whose other
\* blobs are rest
OwnerAction(tag, k, rest) ==
    IF tag = "RegisterIdentity" THEN RegisterIdentity(Sign(k, RegistrationMessage))
    ELSE VerifyIdentity(U32(0), TRUE, Sign(k, VerifyMessage(U32(0), rest)))

\* the entry point of the ECDSA contract runs on a ContractInput; the
\* state it returns with Ok becomes the contract's state
EcdsaExecute ==
    /\ scheme = "ecdsa"
    /\ \E digest \in {as_digest(identities)} :
       \E case \in EntryCases(digest, BlobLayouts,
                              {"RegisterIdentity", "VerifyIdentity"}, FALSE) :
       \E rest \in {RemoveAt(case.input.blobs, case.input.index)},
          identity \in {<<"a", "c", ".", "c">>} :
       \E action \in {OwnerAction(case.tag, <<"a", "c">>, rest)} :
       \E r \in {execute(case.input, action, identity, FALSE)} :
       \E c \in {[CallRecord("entry", OpOf(case.tag), identity,
                              StripSuffix(identity, ContractName), action.nonce,
                              rest, action.signature, TokenBadPayload, "K1",
                              NoContext, r, DecodedState(case.input))
                     EXCEPT !.input = case.input]} :
         /\ identities' = SuccessorState(r, identities)
         /\ call' = c
         /\ Remember(c)
    /\ UNCHANGED <<scheme, custodyVars, submissionVars>>

\* the entry point of the OIDC contract
OidcExecute ==
    /\ scheme = "oidc"
    /\ \E digest \in {as_digest(identities)} :
       \E case \in EntryCases(digest, {<<<<IdentityBlob>>, 0>>},
                              {"RegisterIdentity", "VerifyIdentity", "GetIdentityInfo"},
                              TRUE) :
       \E action \in {OidcAction(case.tag, <<"a">>, U32(0),
                                  OpenIdContext(<<"idp">>, <<"app1">>), "K1")} :
       \E r \in {oidc_execute(case.input, action, TokenU1, FALSE)} :
       \E c \in {[CallRecord("entry", OpOf(case.tag), action.account,
                              action.account, action.nonce, <<>>, NotHexSignature,
                              TokenU1, action.jwk_pub_key, action.context, r,
                              DecodedState(case.input))
                     EXCEPT !.input = case.input]} :
         /\ identities' = SuccessorState(r, identities)
         /\ call' = c
         /\ Remember(c)
    /\ UNCHANGED <<scheme, custodyVars, submissionVars>>

\* a direct call of a method of the IdentityVerification trait on the store
MethodCall(op, account, nonce, token, jwk, context, outcome) ==
    \E r \in {outcome} :
    \E c \in {CallRecord("method", op, account, account, nonce, <<>>,
                         NotHexSignature, token, jwk, context,
                         RunResult("none", "", r.res, r.ids), identities)} :
        /\ identities' = r.ids
        /\ call' = c
        /\ Remember(c)
        /\ UNCHANGED <<scheme, custodyVars, submissionVars>>

OidcRegisterIdentity ==
    /\ scheme = "oidc"
    /\ \E account \in OidcAccounts :
       \E offer \in OidcOffers(account) :
       \E context \in {offer[1]}, jwk \in {offer[2]}, token \in {offer[3]} :
         MethodCall("register", account, U32(0), token, jwk, context,
                    OidcIdentity_register_identity(identities, account, context,
                                                   jwk, token))

OidcVerifyIdentity ==
    /\ scheme = "oidc"
    /\ \E account \in OidcAccounts, nonce \in NonceInputs :
       \E offer \in OidcOffers(account) :
       \E context \in {offer[1]}, jwk \in {offer[2]}, token \in {offer[3]},
          overflow_checks \in OverflowChoices(identities, account) :
         MethodCall("verify", account, nonce, token, jwk, context,
                    OidcIdentity_verify_identity(identities, account, nonce, context,
                                                 jwk, token, overflow_checks))

OidcGetIdentityInfo ==
    /\ scheme = "oidc"
    /\ \E account \in OidcAccounts :
       \E r \in {OidcIdentity_get_identity_info(identities, account)} :
       \E c \in {[CallRecord("method", "info", account, account, U32(0), <<>>,
                             NotHexSignature, TokenBadPayload, "K1", NoContext,
                             RunResult("none", "",
                                       [kind |-> r.res.kind, value |-> r.res.value,
                                        msg |-> r.res.msg], r.ids),
                             identities)
                    EXCEPT !.info = r.res.info]} :
         /\ identities' = r.ids
         /\ call' = c
         /\ Remember(c)
         /\ UNCHANGED <<scheme, custodyVars, submissionVars>>

Next ==
    \/ EcdsaExecute
    \/ OidcExecute
    \/ EcdsaExecuteAction
    \/ OidcExecuteAction
    \/ OidcRegisterIdentity
    \/ OidcVerifyIdentity
    \/ OidcGetIdentityInfo

Spec == Init /\ [][Next]_vars

\* the hosts start with no contract call made and no host run
HostInit ==
    /\ scheme = "ecdsa"
    /\ identities = EmptyStore
    /\ call = NoCall
    /\ remembered = "never"
    /\ HostIdle

\* the host is run for an account label with a password and a message to
\* sign; the runs follow one another
HandleSecp384r1Identity ==
    /\ \E account \in AccountLabels, password \in {"pw1", "pw2"},
          message \in {RegistrationMessage, VerifyMessage(U32(0), <<>>)},
          random_key \in SigningKeys, random_nonce \in {"n1", "n2"} :
       \E r \in {handle_secp384r1_identity(key_files, account, password, message,
                                            random_key, random_nonce)} :
         /\ key_files' = r.files
         /\ custody' = CustodyCall(account, password, message, random_key, r,
                                   key_files)
         /\ returned' = IF r.out = "Ok"
                        THEN [returned EXCEPT ![account] = @ \cup {r.public_key}]
                        ELSE returned
    /\ UNCHANGED <<contractVars, submissionVars>>

CustodySpec == HostInit /\ [][HandleSecp384r1Identity]_vars

\* a command is started: its hex arguments are decoded, then its action,
\* blobs and blob transaction are built
StartCommand ==
    /\ cli.pc \in {"none", "exit", "panicked"}
    /\ cli.runs < MaxRuns
    /\ \E c \in Commands :
         cli' = IF ~ArgumentsDecode(c)
                THEN Process("panicked", cli.runs + 1, c, <<>>,
                             BlobTransaction(<<>>, <<>>), <<>>, <<>>, NoInputs)
                ELSE Process("send_tx_blob", cli.runs + 1, c, <<>>,
                             BlobTransaction(c.username, CommandBlobs(c)),
                             <<>>, <<>>, NoInputs)
    /\ UNCHANGED <<node, contractVars, custodyVars>>

\* client.send_tx_blob(&blob_tx).await.unwrap()
SendTxBlob ==
    /\ cli.pc = "send_tx_blob"
    /\ \/ /\ node' = [node EXCEPT !.requests = Append(@, cli.blob_tx)]
          /\ cli' = [cli EXCEPT !.pc = "get_contract",
                                !.steps = Append(@, "send_tx_blob"),
                                !.blob_tx_hash = TxHash(cli.blob_tx)]
       \/ /\ cli' = [cli EXCEPT !.pc = "panicked"]
          /\ UNCHANGED node
    /\ UNCHANGED <<contractVars, custodyVars>>

\* client.get_contract(..).await.unwrap().state, and the ContractInput
\* built from it
GetContract ==
    /\ cli.pc = "get_contract"
    /\ \/ /\ node' = [node EXCEPT !.requests = Append(@, [kind |-> "get", state |-> node.state])]
          /\ cli' = [cli EXCEPT !.pc = "prove",
                                !.steps = Append(@, "get_contract"),
                                !.initial_state = node.state,
                                !.inputs = ContractInput(node.state,
                                                         cli.blob_tx.identity,
                                                         cli.blob_tx_hash,
                                                         cli.blob_tx.blobs)]
       \/ /\ cli' = [cli EXCEPT !.pc = "panicked"]
          /\ UNCHANGED node
    /\ UNCHANGED <<contractVars, custodyVars>>

\* prover.prove(inputs).await.unwrap()
ProveInputs ==
    /\ cli.pc = "prove"
    /\ \/ cli' = [cli EXCEPT !.pc = "send_tx_proof",
                             !.steps = Append(@, "prove"),
                             !.proof = Prove(cli.inputs)]
       \/ cli' = [cli EXCEPT !.pc = "panicked"]
    /\ UNCHANGED <<node, contractVars, custodyVars>>

\* client.send_tx_proof(&proof_tx).await.unwrap()
SendTxProof ==
    /\ cli.pc = "send_tx_proof"
    /\ \/ /\ node' = [node EXCEPT !.requests =
                           Append(@, ProofTransaction(cli.proof, SimpleIdentity))]
          /\ cli' = [cli EXCEPT !.pc = "exit",
                                !.steps = Append(@, "send_tx_proof")]
       \/ /\ cli' = [cli EXCEPT !.pc = "panicked"]
          /\ UNCHANGED node
    /\ UNCHANGED <<contractVars, custodyVars>>

\* the node settles transactions of other parties: the state of the
\* contract changes
ContractSettles ==
    /\ \E state \in {<<0>>, <<1, 0>>} \ {node.state} :
         node' = [node EXCEPT !.state = state]
    /\ UNCHANGED <<cli, contractVars, custodyVars>>

SubmissionNext ==
    \/ StartCommand
    \/ SendTxBlob
    \/ GetContract
    \/ ProveInputs
    \/ SendTxProof
    \/ ContractSettles

SubmissionSpec == HostInit /\ [][SubmissionNext]_vars

----------------------------------------------------------------------------
(* Vocabulary of the properties *)

IsMethodCall(op) == call.op = op /\ call.res.kind # "none"

Registered == call.key \in DOMAIN call.pre

\* the proof of the last call passes the scheme's verifier for operation op
ProofVerifies(op) ==
    IF scheme = "ecdsa"
    THEN verify_signature(call.key, call.signature,
                          IF op = "register" THEN RegistrationMessage
                          ELSE VerifyMessage(call.nonce, call.blobs)) = Ok(TRUE)
    ELSE verify_jwt_signature(call.token, call.jwk, call.context).kind = "ok"

\* the credential hash recomputed from the proof of the last call
RecomputedHash ==
    IF scheme = "ecdsa" THEN HexSha256(call.key)
    ELSE HexSha256(CredentialId(call.token.sub, call.token.iss))

\* the message the ECDSA verifier is given in the last call
VerifierMessage ==
    IF call.op = "register" THEN RegistrationMessage
    ELSE VerifyMessage(call.nonce, call.blobs)

\* the last call ran a method up to the check of its proof: a
\* registration, or a verification of a registered account at its stored
\* nonce
ReachedVerifier ==
    /\ call.res.kind # "none"
    /\ \/ call.op = "register"
       \/ call.op = "verify" /\ Registered /\ call.nonce = call.pre[call.key].nonce

\* key and signature of the last call decode: hex of a SEC1 point, hex of
\* a DER signature
StructurallyValid ==
    /\ HexDecodeOk(call.key) /\ call.key \in Sec1Keys
    /\ call.signature.hex /\ call.signature.der

\* sig is a signature made with the key k over the message m
SignedBy(sig, k, m) == sig.hex /\ sig.der /\ sig.signer = k /\ sig.msg = m

DottedSuffix == <<".">> \o ContractName

InvalidAccountFormat == call.out = "Err" /\ call.msg = "Invalid account extension"

----------------------------------------------------------------------------
(* Properties *)

\* C1: register_identity for an account key already in the store, with a
\* proof that verifies, fails with "Identity already exists" and leaves the
\* account's record (hash and nonce) in the store as it was before the call.
C1_RegistrationExactlyOnce ==
    (IsMethodCall("register") /\ Registered /\ ProofVerifies("register"))
        => /\ call.res = Err("Identity already exists")
           /\ call.self[call.key] = call.pre[call.key]

\* C2: a verify_identity call that has returned true never returns true
\* again when the identical call is made in a later state of the store.
C2_NoReplay == remembered # "again"

\* C3: from its registration on, an account stays in the store, its hash
\* never changes, and its nonce changes only by +1 in a verify_identity call
\* on that account that returns true.
C3_RecordInvariant ==
    [][\A k \in DOMAIN identities :
          /\ k \in DOMAIN identities'
          /\ identities'[k].hash = identities[k].hash
          /\ \/ identities'[k].nonce = identities[k].nonce
             \/ /\ IsSuccessor(identities[k].nonce, identities'[k].nonce)
                /\ VerifiedTrue(call')
                /\ call'.key = k]_vars

\* C4: when verify_identity returns true for an account whose stored nonce is
\* n, the stored nonce afterwards is n + 1 and the hash is unchanged.
C4_NonceIncrement ==
    VerifiedTrue(call)
        => /\ IsSuccessor(call.pre[call.key].nonce, call.self[call.key].nonce)
           /\ call.self[call.key].hash = call.pre[call.key].hash

\* C5: verify_identity on a registered account with a nonce different from
\* the stored one fails with "Invalid nonce", whatever the proof is, and
\* leaves the whole store unchanged.
C5_StrictNonceEquality ==
    (IsMethodCall("verify") /\ Registered /\ call.nonce # call.pre[call.key].nonce)
        => /\ call.res = Err("Invalid nonce")
           /\ call.self = call.pre
           /\ identities = call.pre

\* C5 witness: a nonce below the stored one, offered with a proof that does
\* not verify, was refused with "Invalid nonce"
C5_Witness_StaleNonce ==
    /\ IsMethodCall("verify") /\ Registered
    /\ U32Less(call.nonce, call.pre[call.key].nonce)
    /\ ~ProofVerifies("verify")
    /\ call.res = Err("Invalid nonce")
    /\ identities = call.pre

\* C6: the ECDSA execute_action rejects, with the invalid-account error and
\* without a state change, every acting account that does not end with
\* '.' followed by the contract name.
C6_EcdsaBindingRule ==
    (scheme = "ecdsa" /\ call.level = "execute" /\ ~EndsWith(call.account, DottedSuffix))
        => /\ InvalidAccountFormat
           /\ identities = call.pre

\* C7: for every account the ECDSA execute_action accepts, the credential
\* key followed by '.' and the contract name is the account identifier.
C7_SuffixStripping ==
    (scheme = "ecdsa" /\ call.level = "execute" /\ ~InvalidAccountFormat)
        => call.key \o DottedSuffix = call.account

\* C8: the OIDC execute_action rejects, with the invalid-account error and
\* without a state change, every Register or Verify action whose account
\* does not end with '.' followed by the contract name.
C8_OidcBindingRule ==
    (/\ scheme = "oidc" /\ call.level = "execute"
     /\ call.op \in {"register", "verify"}
     /\ ~EndsWith(call.account, DottedSuffix))
        => /\ InvalidAccountFormat
           /\ identities = call.pre

\* C9: verify_identity on a registered account with the stored nonce and a
\* proof that verifies, but whose recomputed credential hash differs from
\* the stored hash, returns Ok(false) and changes neither nonce nor hash.
C9_WrongCredentialIsFalse ==
    (/\ IsMethodCall("verify") /\ Registered
     /\ call.nonce = call.pre[call.key].nonce
     /\ ProofVerifies("verify")
     /\ RecomputedHash # call.pre[call.key].hash)
        => /\ call.res = Ok(FALSE)
           /\ call.self[call.key] = call.pre[call.key]
           /\ identities[call.key] = call.pre[call.key]

\* C9 witness: a token of another subject was presented for a registered
\* account and the call returned false
C9_Witness_OtherSubject ==
    /\ IsMethodCall("verify") /\ Registered
    /\ call.nonce = call.pre[call.key].nonce
    /\ ProofVerifies("verify")
    /\ RecomputedHash # call.pre[call.key].hash
    /\ call.res = Ok(FALSE)

\* C10: when verify_identity returns false the dispatcher's result is not an
\* error: it differs in kind from the result for a wrong nonce or malformed
\* data.
C10_FalseIsNotAnError ==
    (call.level = "execute" /\ call.res = Ok(FALSE)) => call.out = "Ok"

\* the accounts other than the one the last call addressed are in the store
\* exactly as they were before the call
OthersUntouched ==
    /\ DOMAIN identities \ {call.key} = DOMAIN call.pre \ {call.key}
    /\ \A k \in DOMAIN call.pre \ {call.key} : identities[k] = call.pre[k]

\* C11: when execute_action (of either scheme) does not return Ok, the
\* contract's state after the call is the state before it, whatever the
\* method did to its copy; when it returns Ok, the state after the call is
\* the store the method left, and it differs from the state before at most
\* in the record of the addressed account (not at all for GetIdentityInfo).
C11_NoPartialMutation ==
    call.level = "execute"
        => /\ call.out # "Ok" => identities = call.pre
           /\ call.out = "Ok"
                 => /\ identities = call.self
                    /\ OthersUntouched
                    /\ call.op = "info" => identities = call.pre

\* C11 witness: a dispatched registration overwrote the record of an
\* existing account in its copy of the store, failed, and the contract's
\* state is the one before the call
C11_Witness_DroppedOverwrite ==
    /\ call.level = "execute" /\ call.op = "register"
    /\ call.out = "Err"
    /\ call.self # call.pre
    /\ identities = call.pre

\* C12: the bytes as_digest produces for the contract's store decode to a
\* store with the same account keys and, for each key, the same hash and
\* nonce.
C12_DigestRoundTrip ==
    LET decoded == decode_from_slice(as_digest(identities)) IN
    /\ decoded.ok
    /\ DOMAIN decoded.value = DOMAIN identities
    /\ \A k \in DOMAIN identities :
          /\ decoded.value[k].hash = identities[k].hash
          /\ decoded.value[k].nonce = identities[k].nonce

\* C12 witness: an entry point has decoded the digest of its state and
\* left a store of two accounts, one of them at nonce u32::MAX
C12_Witness_TwoAccounts ==
    /\ call.level = "entry" /\ call.out = "Ok"
    /\ call.input.initial_state = as_digest(call.pre)
    /\ Cardinality(DOMAIN identities) >= 2
    /\ \E k \in DOMAIN identities : identities[k].nonce = U32Max

\* C13: an entry point that decodes an initial-state buffer which is
\* truncated or malformed returns an error; it does not panic.
C13_CorruptStateIsAnError ==
    (/\ call.level = "entry" /\ call.input.parsed
     /\ ~decode_from_slice(call.input.initial_state).ok)
        => call.out = "Err"

\* the keys of the n entries of a digest from position p on, in the order
\* in which they are serialized
RECURSIVE ReadKeys(_, _, _)
ReadKeys(bytes, p, n) ==
    IF n = 0 THEN <<>>
    ELSE LET key == ReadString(bytes, p)
             info == ReadAccountInfo(bytes, key.next)
         IN  <<key.value>> \o ReadKeys(bytes, info.next, n - 1)

SerializedKeys(digest) == ReadKeys(digest, ReadLen(digest, 1).next, ReadLen(digest, 1).value)

\* C14: the digest of the contract's store lists every account once, in
\* strictly ascending lexicographic order of the keys, whatever the order
\* in which the accounts were registered.
C14_CanonicalDigest ==
    LET keys == SerializedKeys(as_digest(identities)) IN
    /\ Len(keys) = Cardinality(DOMAIN identities)
    /\ {keys[i] : i \in 1..Len(keys)} = DOMAIN identities
    /\ \A i \in 1..(Len(keys) - 1) : StrLess(keys[i], keys[i + 1])

\* C14 witness: an account was registered after an account with a greater
\* key, and the digest lists the new account first
C14_Witness_RegisteredOutOfOrder ==
    /\ call.op = "register" /\ call.res.kind = "ok"
    /\ identities = call.self
    /\ \E k \in DOMAIN call.pre : StrLess(call.key, k)
    /\ SerializedKeys(as_digest(identities))[1] = call.key

\* C16: an ECDSA registration, or verification at the stored nonce, whose
\* credential key is not a hex string returns an error (the call does not
\* abort) and leaves the store unchanged.
C16_MalformedKeyIsDecodeError ==
    (scheme = "ecdsa" /\ ReachedVerifier /\ ~HexDecodeOk(call.key))
        => /\ call.res.kind = "err"
           /\ call.out = "Err"
           /\ identities = call.pre

\* C17: verify_signature returns Ok(true) exactly for a signature by the
\* key over the message, Ok(false) for any other well-formed key and DER
\* signature, and an error, never a panic, when the key or the signature
\* does not decode.
C17_VerifierOutcomeClasses ==
    (scheme = "ecdsa" /\ ReachedVerifier)
        => LET v == verify_signature(call.key, call.signature, VerifierMessage) IN
           IF StructurallyValid
           THEN v = Ok(call.signature.signer = call.key
                         /\ call.signature.msg = VerifierMessage)
           ELSE v.kind = "err"

\* C18: an OIDC register_identity, or verify_identity of a registered
\* account at its stored nonce, with a token that fails JWT verification
\* returns an error (it does not abort) and leaves the store unchanged.
C18_InvalidTokenIsAnError ==
    (scheme = "oidc" /\ ReachedVerifier /\ ~ProofVerifies(call.op))
        => /\ call.res.kind = "err"
           /\ call.self = call.pre
           /\ identities = call.pre

\* C19: a register_identity that succeeds for an account not in the store
\* adds that account with nonce 0 and the hex SHA-256 of the credential
\* reference (the key string, or sub:iss of the token) as hash, and leaves
\* every other account as it was.
C19_RegisterPostcondition ==
    (IsMethodCall("register") /\ call.res.kind = "ok" /\ ~Registered)
        => /\ DOMAIN call.self = DOMAIN call.pre \cup {call.key}
           /\ \A k \in DOMAIN call.pre : call.self[k] = call.pre[k]
           /\ call.self[call.key].nonce = U32(0)
           /\ call.self[call.key].hash = RecomputedHash
           /\ identities = call.self

\* C19 witness: an account was registered next to an existing one and
\* stands in the store at nonce 0
C19_Witness_SecondAccount ==
    /\ IsMethodCall("register") /\ call.res.kind = "ok" /\ ~Registered
    /\ call.pre # EmptyStore
    /\ identities[call.key] = [hash |-> RecomputedHash, nonce |-> U32(0)]

\* C20: the stored nonce of a registered account counts the verify_identity
\* calls on it that have returned true: once the verification of the
\* watched account at nonce 0 has returned true, the account's stored nonce
\* is at least 1, so nonce 0 is not the one accepted next.
C20_NonceCountsSuccesses ==
    remembered # "never"
        => /\ ReplayProbe(scheme).key \in DOMAIN identities
           /\ U32Less(U32(0), identities[ReplayProbe(scheme).key].nonce)

\* C21: get_identity_info never changes the store; for a registered account
\* it succeeds (a direct call returns the JSON of the account's current hash
\* and nonce), for an unregistered account it fails with "Identity not
\* found".
C21_InfoIsReadOnly ==
    IsMethodCall("info")
        => /\ call.self = call.pre
           /\ identities = call.pre
           /\ Registered
                => /\ call.res.kind = "ok"
                   /\ call.level = "method" => call.info = to_string(call.pre[call.key])
           /\ ~Registered => call.res = Err("Identity not found")

\* C21 witness: the record of an account that has been verified once was
\* read and is still in the store as it was
C21_Witness_ReadAfterVerify ==
    /\ IsMethodCall("info") /\ call.level = "method" /\ Registered
    /\ call.pre[call.key].nonce = U32(1)
    /\ call.info = to_string(identities[call.key])

\* C22: in every step each account key of the store stays in the store, and
\* the only key a step adds is the key of a register_identity call.
C22_StoreOnlyGrows ==
    [][/\ DOMAIN identities \subseteq DOMAIN identities'
       /\ DOMAIN identities' # DOMAIN identities
            => /\ call'.op = "register"
               /\ DOMAIN identities' = DOMAIN identities \cup {call'.key}]_vars

\* C22 witness: the store holds two accounts, the second added by a
\* dispatched registration
C22_Witness_Grown ==
    /\ call.level = "execute" /\ call.op = "register" /\ call.out = "Ok"
    /\ Cardinality(DOMAIN call.pre) = 1
    /\ DOMAIN identities = DOMAIN call.pre \cup {call.key}
    /\ Cardinality(DOMAIN identities) = 2

\* C23: in the ECDSA scheme a step adds an account key only by a
\* register_identity call whose signature was made with that key over the
\* registration message; a registration with a well-formed signature that
\* is not such a signature fails with "Invalid signature" and changes
\* nothing.
C23_ProofOfPossession ==
    [][scheme = "ecdsa"
         => /\ \A k \in DOMAIN identities' \ DOMAIN identities :
                  /\ call'.op = "register" /\ call'.key = k
                  /\ SignedBy(call'.signature, k, RegistrationMessage)
            /\ (/\ call'.op = "register" /\ call'.res.kind # "none"
                /\ StructurallyValid'
                /\ ~SignedBy(call'.signature, call'.key, RegistrationMessage))
                 => /\ call'.res = Err("Invalid signature")
                    /\ call'.self = call'.pre
                    /\ identities' = identities]_vars

\* C23 witness: a registration signed with another key was refused and an
\* account registered before it is all the store holds
C23_Witness_ForeignSignature ==
    /\ scheme = "ecdsa" /\ call.op = "register"
    /\ StructurallyValid
    /\ call.signature.signer # call.key
    /\ call.res = Err("Invalid signature")
    /\ call.key \notin DOMAIN identities
    /\ identities # EmptyStore

\* C24: when the entry point of the OIDC contract is given a private input
\* that is not UTF-8 (the action parses and the state decodes), the call
\* returns an error; it does not panic.
C24_NonUtf8IsAnError ==
    (/\ scheme = "oidc" /\ call.level = "entry"
     /\ call.input.parsed
     /\ decode_from_slice(call.input.initial_state).ok
     /\ ~call.input.utf8)
        => call.out = "Err"

\* C25: verify_identity reports the first failing check in the order
\* lookup, nonce, proof, hash: "Identity not found" for an unregistered
\* account whatever the nonce and the proof are, "Invalid nonce" for a
\* registered account with another nonce whatever the proof is, and for a
\* proof that does not verify neither true nor false.
C25_VerifyCheckOrder ==
    IsMethodCall("verify")
        => /\ ~Registered => call.res = Err("Identity not found")
           /\ (Registered /\ call.nonce # call.pre[call.key].nonce)
                => call.res = Err("Invalid nonce")
           /\ (Registered /\ call.nonce = call.pre[call.key].nonce
                          /\ ~ProofVerifies("verify"))
                => call.res.kind # "ok"

\* C25 witness: a verification of an unregistered ECDSA account with a
\* signature that is not even DER was answered with "Identity not found"
C25_Witness_NotFoundFirst ==
    /\ scheme = "ecdsa" /\ IsMethodCall("verify") /\ ~Registered
    /\ ~call.signature.der
    /\ call.res = Err("Identity not found")

\* C27: an ECDSA VerifyIdentity action without a signature fails with an
\* error for every account and nonce; verify_identity is not called, so
\* the account is not looked up, and the store does not change.
C27_MissingSignature ==
    (scheme = "ecdsa" /\ call.op = "verify" /\ ~call.has_signature)
        => /\ call.out = "Err"
           /\ call.res.kind = "none"
           /\ call.self = call.pre
           /\ identities = call.pre

\* C27 witness: a registered account at its stored nonce was refused for
\* the missing signature
C27_Witness_RegisteredAccount ==
    /\ scheme = "ecdsa" /\ call.op = "verify" /\ ~call.has_signature
    /\ Registered /\ call.nonce = call.pre[call.key].nonce
    /\ call.msg = "Identity verification failed, missing signature"
    /\ identities = call.pre

\* the blobs of a transaction without the one at position index (counted
\* from 0), in their order
OtherBlobs(blobs, index) ==
    [j \in 1..(Len(blobs) - 1) |-> blobs[IF j <= index THEN j ELSE j + 1]]

\* the batches of other blobs of the transaction layouts
LayoutBatches ==
    {OtherBlobs(l[1], l[2]) : l \in {x \in BlobLayouts : x[2] < Len(x[1])}}

\* C26: the signature an entry-point verification accepts is over
\* "verify <nonce> " and the renderings of the blobs of the transaction
\* other than the identity blob, in their order, wherever the identity
\* blob is; it is not a signature made for any other batch of other blobs.
C26_BatchBinding ==
    (scheme = "ecdsa" /\ call.level = "entry" /\ VerifiedTrue(call))
        => LET others == OtherBlobs(call.input.blobs, call.input.index)
           IN  /\ call.signature.msg = VerifyMessage(call.nonce, others)
               /\ \A b \in LayoutBatches :
                      b # others
                          => call.signature
                                 # Sign(call.key, VerifyMessage(call.nonce, b))

\* C30: the message of a verification belongs to one (nonce, batch) only:
\* no other nonce or batch of other blobs yields the same message.
C30_InjectiveMessage ==
    (scheme = "ecdsa" /\ call.op = "verify" /\ ReachedVerifier)
        => \A n \in NonceInputs, b \in BlobBatches \cup LayoutBatches :
               VerifyMessage(n, b) = VerifyMessage(call.nonce, call.blobs)
                   => n = call.nonce /\ b = call.blobs

\* C28: a Register or Verify operation of either scheme on one account,
\* whatever its outcome, leaves the record of every other account of the
\* store as it was, in the store the method worked on and in the
\* contract's state after the call.
C28_PerAccountIsolation ==
    call.op \in {"register", "verify"}
        => \A k \in DOMAIN call.pre \ {call.key} :
               /\ k \in DOMAIN identities /\ identities[k] = call.pre[k]
               /\ call.res.kind # "none"
                      => k \in DOMAIN call.self /\ call.self[k] = call.pre[k]

\* C28 witness: a verification advanced the nonce of its account while
\* another account stood in the store
C28_Witness_VerifiedBesideAnother ==
    /\ VerifiedTrue(call)
    /\ Cardinality(DOMAIN call.pre) = 2
    /\ identities[call.key] # call.pre[call.key]
    /\ \A k \in DOMAIN call.pre \ {call.key} : identities[k] = call.pre[k]

\* C29: in every store the ECDSA contract reaches from the empty store,
\* the hash of each record is the hex SHA-256 of the account key it is
\* stored under, in the contract's state and in the store the last method
\* left; no ECDSA verify_identity returns false.
C29_HashOfOwnKey ==
    scheme = "ecdsa"
        => /\ \A k \in DOMAIN identities : identities[k].hash = HexSha256(k)
           /\ \A k \in DOMAIN call.self : call.self[k].hash = HexSha256(k)
           /\ call.op = "verify" => call.res # Ok(FALSE)

\* C29 witness: an ECDSA verification passed the hash comparison and
\* returned true with two accounts in the store
C29_Witness_ComparedAndTrue ==
    /\ scheme = "ecdsa" /\ VerifiedTrue(call)
    /\ call.pre[call.key].hash = HexSha256(call.key)
    /\ Cardinality(DOMAIN identities) = 2

\* C31: the credential reference "<sub>:<iss>" belongs to one (sub, iss)
\* pair only: when a registration of an account succeeds with one verified
\* token and the next call, a verification of that account with another
\* verified token, finds the stored hash equal to the recomputed one, the
\* two tokens carry the same subject and the same issuer.
C31_InjectiveCredentialReference ==
    [][(/\ scheme = "oidc"
        /\ call.op = "register" /\ call.res.kind = "ok"
        /\ VerifiedTrue(call') /\ call'.key = call.key)
           => /\ call'.token.sub = call.token.sub
              /\ call'.token.iss = call.token.iss]_vars

\* C32: a verification that returns true for an account whose stored nonce
\* is 2^32 - 1 does not leave that account with a smaller nonce, in the
\* store the method worked on or in the contract's state.
C32_NoNonceWrapAround ==
    (VerifiedTrue(call) /\ call.pre[call.key].nonce = U32Max)
        => /\ ~U32Less(call.self[call.key].nonce, U32Max)
           /\ ~U32Less(identities[call.key].nonce, U32Max)

\* the signing key stored in a key file
StoredKey(file) == file.data[2].plain[2]

C34_SubmissionOrdering ==
    [][LET SubmissionOrder ==
               <<"send_tx_blob", "get_contract", "prove", "send_tx_proof">>
           ProofInOrder(requests, i) ==
               /\ i > 2
               /\ requests[i - 2].kind = "blob"
               /\ requests[i - 1].kind = "get"
               /\ requests[i].contract_name = SimpleIdentity
               /\ requests[i].proof.proves.initial_state = requests[i - 1].state
               /\ requests[i].proof.proves.identity = requests[i - 2].identity
               /\ requests[i].proof.proves.blobs = requests[i - 2].blobs
               /\ requests[i].proof.proves.tx_hash = TxHash(requests[i - 2])
               /\ requests[i].proof.proves.index = 0
       IN  /\ cli'.steps = SubSeq(SubmissionOrder, 1, Len(cli'.steps))
           /\ cli'.pc = "exit" => cli'.steps = SubmissionOrder
           /\ \A i \in 1..Len(node'.requests) :
                  node'.requests[i].kind = "proof"
                      => ProofInOrder(node'.requests, i)
           /\ (Len(node'.requests) > Len(node.requests)
                  /\ node'.requests[Len(node'.requests)].kind = "proof")
                 => /\ cli.pc = "send_tx_proof"
                    /\ cli.steps = SubSeq(SubmissionOrder, 1, 3)
                    /\ node'.requests[Len(node'.requests)].proof.proves.blobs
                           = cli.blob_tx.blobs
                    /\ node'.requests[Len(node'.requests)].proof.proves.identity
                           = cli.command.username
           /\ cli'.pc = "panicked" => node'.requests = node.requests]_vars

\* C34 witness: the second command of a host has sent its proof
\* transaction, over a state the contract took after the first command,
\* and the first command had failed after its blob transaction
C34_Witness_ProofAfterFailedRun ==
    /\ cli.pc = "exit" /\ cli.runs = 2
    /\ Len(node.requests) = 4
    /\ node.requests[1].kind = "blob" /\ node.requests[2].kind = "blob"
    /\ node.requests[4].kind = "proof"
    /\ node.requests[4].proof.proves.blobs = node.requests[2].blobs
    /\ node.requests[2].blobs # node.requests[1].blobs
    /\ node.requests[4].proof.proves.initial_state = <<1, 0>>

====
